---- MODULE Spec2Model ----
(***************************************************************************)
(* Model of packages/styled-components/src/sheet/Tag.js: the three Tag     *)
(* backends (CSSOMTag, TextTag, VirtualTag) and makeTag.                   *)
(*                                                                         *)
(* A Tag is modelled as a record [store, length]: `store` is the physical  *)
(* store (sheet.cssRules, element.childNodes or this.rules) and `length`   *)
(* is the counter field the class maintains by hand.  Every method is an   *)
(* operator from the Tag and the arguments to the Tag after the call and   *)
(* the outcome (return value, or a raised error with the fields as they    *)
(* were when it was raised).                                               *)
(***************************************************************************)
EXTENDS Integers, Sequences, FiniteSets, TLC

\* ---------------------------------------------------------------- bounds
MaxLen == 3      \* largest physical store explored
MaxBatch == 2    \* longest rules array passed to insertRules
MaxNeg == 1      \* indices range over -MaxNeg .. MaxLen + 1
MaxDrift == 1    \* largest explored difference between store size and length

\* ------------------------------------------------------- rules and engine
\* Rule texts.  CanonRule is text the engine serialises back unchanged,
\* PlainRule is accepted and serialised in the engine's own formatting,
\* BadRule is rejected by the engine's parser, QuirkRule is accepted but its
\* rule object exposes no string cssText (Tag.js:66).
CanonRule == "a { x: 1; }"
PlainRule == "b{y:2}"
CanonRule2 == "d { z: 3; }"
BadRule == "not valid css"
QuirkRule == "c{:ie}"
Rules == {CanonRule, PlainRule, BadRule, QuirkRule}

\* JavaScript `undefined` when it is returned where a string is expected.
Undefined == "undefined"
\* An absent node / array element (index outside the collection).
NoNode == -1

Max(a, b) == IF a >= b THEN a ELSE b
Min(a, b) == IF a <= b THEN a ELSE b

\* Insert x so that it ends up at 0-based position pos of seq.
InsertAt(seq, pos, xs) ==
  SubSeq(seq, 1, pos) \o xs \o SubSeq(seq, pos + 1, Len(seq))

\* Remove the element at 0-based position pos of seq.
RemoveAt(seq, pos) ==
  SubSeq(seq, 1, pos) \o SubSeq(seq, pos + 2, Len(seq))

\* The native parser: does sheet.insertRule accept this text?
EngineAccepts(rule) == rule # BadRule

\* rule.cssText of an accepted rule: the engine's serialisation of it.
CssText(rule) ==
  CASE rule = PlainRule -> "b { y: 2; }"
    [] OTHER -> rule

\* typeof rule.cssText === 'string'
\* The rules the engine accepts and serialises back unchanged.
CanonRules == {r \in {CanonRule, CanonRule2} : EngineAccepts(r) /\ CssText(r) = r}

CssTextIsString(rule) == rule # QuirkRule

\* CSSStyleSheet.insertRule(rule, index).  index is a WebIDL unsigned long:
\* a negative number converts to a value of at least 2^31, which exceeds any
\* rule count, so it raises IndexSizeError like any index > cssRules.length.
\* A rule the parser rejects raises SyntaxError.  Nothing changes on a raise.
Sheet_insertRule(cssRules, rule, index) ==
  IF index < 0 \/ index > Len(cssRules) \/ ~EngineAccepts(rule)
  THEN [threw |-> TRUE, cssRules |-> cssRules]
  ELSE [threw |-> FALSE, cssRules |-> InsertAt(cssRules, index, <<rule>>)]

\* CSSStyleSheet.deleteRule(index): IndexSizeError unless index < length.
Sheet_deleteRule(cssRules, index) ==
  IF index < 0 \/ index >= Len(cssRules)
  THEN [threw |-> TRUE, cssRules |-> cssRules]
  ELSE [threw |-> FALSE, cssRules |-> RemoveAt(cssRules, index)]

\* collection[index] of a NodeList / CSSRuleList / Array: the 0-based
\* position when it is populated, NoNode (undefined) otherwise.
Item(coll, index) ==
  IF index >= 0 /\ index < Len(coll) THEN index ELSE NoNode

\* Node.insertBefore(nodes, ref): ref null or undefined appends.
Node_insertBefore(children, newNodes, ref) ==
  IF ref = NoNode THEN children \o newNodes
  ELSE InsertAt(children, ref, newNodes)

\* Array.prototype.splice start position: negative counts from the end.
SpliceStart(len, index) ==
  IF index < 0 THEN Max(len + index, 0) ELSE Min(index, len)

\* array.splice(index, 0, item)
Array_spliceInsert(arr, index, item) ==
  InsertAt(arr, SpliceStart(Len(arr), index), <<item>>)

\* array.splice(index, 1)
Array_spliceDelete(arr, index) ==
  RemoveAt(arr, SpliceStart(Len(arr), index))

\* ---------------------------------------------------------------- makeTag
\* Variant: the two options are tested in the other order.
Mut_makeTag_CSSOMFirst(isServer, useCSSOMInjection) ==
  IF useCSSOMInjection THEN "CSSOMTag"
  ELSE IF isServer THEN "VirtualTag"
  ELSE "TextTag"

makeTag(isServer, useCSSOMInjection) ==
  IF isServer THEN "VirtualTag"
  ELSE IF useCSSOMInjection THEN "CSSOMTag"
  ELSE "TextTag"

Backends == {"CSSOMTag", "TextTag", "VirtualTag"}

\* The Tag every constructor leaves: an empty store and length 0.
NewTag == [store |-> <<>>, length |-> 0]

Out(t, threw, ret) ==
  [store |-> t.store, length |-> t.length, threw |-> threw, ret |-> ret]

\* ----------------------------------------------------- ./dom collaborators
\* makeStyleTag(target): the child nodes of the style element it returns.
makeStyleTag == <<>>

\* getSheet(element): the cssRules of the sheet handle it returns.
getSheet(children) == <<>>

\* One step a constructor took and the element's child count after it.
Step(name, children) == [step |-> name, children |-> Len(children)]

\* One structural DOM operation: on the live element or on a detached
\* fragment, with the texts of the nodes it moves.
DomOp(on, op, nodes) == [on |-> on, op |-> op, nodes |-> nodes]

\* --------------------------------------------------------------- CSSOMTag
\* Variant: the counter is bumped before the engine is asked.
Mut_CSSOMTag_insertRule_CountFirst(t, index, rule) ==
  LET e == Sheet_insertRule(t.store, rule, index) IN
  IF e.threw THEN Out([store |-> t.store, length |-> t.length + 1], FALSE, FALSE)
  ELSE Out([store |-> e.cssRules, length |-> t.length + 1], FALSE, TRUE)

\* Variant: the sheet is acquired before the placeholder is appended.
Mut_CSSOMTag_constructor_SheetFirst ==
  LET element0 == makeStyleTag
      sheet == getSheet(element0)
      element1 == Append(element0, "") IN
  [store |-> sheet, length |-> 0,
   steps |-> <<Step("makeStyleTag", element0), Step("getSheet", element0),
               Step("appendChild", element1)>>]

CSSOMTag_constructor ==
  LET element0 == makeStyleTag
      element1 == Append(element0, "")
      sheet == getSheet(element1) IN
  [store |-> sheet, length |-> 0,
   steps |-> <<Step("makeStyleTag", element0), Step("appendChild", element1),
               Step("getSheet", element1)>>]

CSSOMTag_insertRule(t, index, rule) ==
  LET e == Sheet_insertRule(t.store, rule, index) IN
  IF e.threw THEN Out(t, FALSE, FALSE)
  ELSE Out([store |-> e.cssRules, length |-> t.length + 1], FALSE, TRUE)

\* Variant: ruleIndex advances after every rule, accepted or not.
RECURSIVE Mut_CSSOMTag_insertRulesLoop_AlwaysAdvance(_, _, _, _, _)
Mut_CSSOMTag_insertRulesLoop_AlwaysAdvance(t, ruleIndex, rules, i, insertCount) ==
  IF i > Len(rules) THEN Out(t, FALSE, insertCount)
  ELSE LET r == CSSOMTag_insertRule(t, ruleIndex, rules[i])
           t2 == [store |-> r.store, length |-> r.length] IN
       Mut_CSSOMTag_insertRulesLoop_AlwaysAdvance(
         t2, ruleIndex + 1, rules, i + 1,
         IF r.ret THEN insertCount + 1 ELSE insertCount)

RECURSIVE CSSOMTag_insertRulesLoop(_, _, _, _, _)
CSSOMTag_insertRulesLoop(t, ruleIndex, rules, i, insertCount) ==
  IF i > Len(rules) THEN Out(t, FALSE, insertCount)
  ELSE LET r == CSSOMTag_insertRule(t, ruleIndex, rules[i])
           t2 == [store |-> r.store, length |-> r.length] IN
       IF r.ret
       THEN CSSOMTag_insertRulesLoop(t2, ruleIndex + 1, rules, i + 1, insertCount + 1)
       ELSE CSSOMTag_insertRulesLoop(t2, ruleIndex, rules, i + 1, insertCount)

CSSOMTag_insertRules(t, startRuleIndex, rules) ==
  CSSOMTag_insertRulesLoop(t, startRuleIndex, rules, 1, 0)

\* Variant: the counter is lowered before the engine is asked.
Mut_CSSOMTag_deleteRule_CountFirst(t, index) ==
  LET e == Sheet_deleteRule(t.store, index) IN
  IF e.threw THEN Out([store |-> t.store, length |-> t.length - 1], TRUE, FALSE)
  ELSE Out([store |-> e.cssRules, length |-> t.length - 1], FALSE, FALSE)

CSSOMTag_deleteRule(t, index) ==
  LET e == Sheet_deleteRule(t.store, index) IN
  IF e.threw THEN Out(t, TRUE, FALSE)
  ELSE Out([store |-> e.cssRules, length |-> t.length - 1], FALSE, FALSE)

CSSOMTag_getRule(t, index) ==
  LET rule == Item(t.store, index) IN
  IF rule # NoNode /\ CssTextIsString(t.store[rule + 1])
  THEN Out(t, FALSE, CssText(t.store[rule + 1]))
  ELSE Out(t, FALSE, "")

\* ---------------------------------------------------------------- TextTag
TextTag_constructor ==
  LET element == makeStyleTag IN
  [store |-> element, length |-> 0, steps |-> <<Step("makeStyleTag", element)>>]

\* Variant: the node is inserted but the counter is left alone.
Mut_TextTag_insertRule_ForgetCount(t, index, rule) ==
  IF index <= t.length /\ index >= 0
  THEN LET refNode == Item(t.store, index) IN
       Out([store |-> Node_insertBefore(t.store, <<rule>>, refNode),
            length |-> t.length], FALSE, TRUE)
  ELSE Out(t, FALSE, FALSE)

\* Variant: the new node is always appended, whatever the index.
Mut_TextTag_insertRule_Append(t, index, rule) ==
  IF index <= t.length /\ index >= 0
  THEN Out([store |-> Node_insertBefore(t.store, <<rule>>, NoNode),
            length |-> t.length + 1], FALSE, TRUE)
  ELSE Out(t, FALSE, FALSE)

TextTag_insertRule(t, index, rule) ==
  IF index <= t.length /\ index >= 0
  THEN LET refNode == Item(t.store, index) IN
       Out([store |-> Node_insertBefore(t.store, <<rule>>, refNode),
            length |-> t.length + 1], FALSE, TRUE)
  ELSE Out(t, FALSE, FALSE)

\* The loop of insertRules: the fragment's child list after every rule has
\* been inserted before fragmentNodes[i] || null.
RECURSIVE TextTag_buildFragment(_, _, _)
TextTag_buildFragment(fragmentNodes, rules, i) ==
  IF i > Len(rules) THEN fragmentNodes
  ELSE TextTag_buildFragment(
         Node_insertBefore(fragmentNodes, <<rules[i]>>, Item(fragmentNodes, i - 1)),
         rules, i + 1)

\* Variant: fragmentNodes.length is read after the fragment was attached,
\* when the fragment is empty again.
Mut_TextTag_insertRules_CountAfterAttach(t, startRuleIndex, rules) ==
  LET fragmentNodes == TextTag_buildFragment(<<>>, rules, 1)
      elementRefNode == Item(t.store, startRuleIndex)
      insertCount == 0 IN
  Out([store |-> Node_insertBefore(t.store, fragmentNodes, elementRefNode),
       length |-> t.length + insertCount], FALSE, insertCount)

TextTag_insertRules(t, startRuleIndex, rules) ==
  LET fragmentNodes == TextTag_buildFragment(<<>>, rules, 1)
      elementRefNode == Item(t.store, startRuleIndex)
      insertCount == Len(fragmentNodes) IN
  Out([store |-> Node_insertBefore(t.store, fragmentNodes, elementRefNode),
       length |-> t.length + insertCount], FALSE, insertCount)

\* Variant: the node is removed but the counter is left alone.
Mut_TextTag_deleteRule_KeepLength(t, index) ==
  LET node == Item(t.store, index) IN
  IF node = NoNode THEN Out(t, TRUE, FALSE)
  ELSE Out([store |-> RemoveAt(t.store, node), length |-> t.length], FALSE, FALSE)

\* The structural DOM operations of TextTag.insertRule, in order.
TextTag_insertRule_domOps(t, index, rule) ==
  IF index <= t.length /\ index >= 0
  THEN <<DomOp("element", "insertBefore", <<rule>>)>>
  ELSE <<>>

\* The operations of the fragment loop of TextTag.insertRules.
RECURSIVE TextTag_buildFragment_domOps(_, _, _)
TextTag_buildFragment_domOps(ops, rules, i) ==
  IF i > Len(rules) THEN ops
  ELSE TextTag_buildFragment_domOps(
         Append(ops, DomOp("fragment", "insertBefore", <<rules[i]>>)), rules, i + 1)

\* Variant: every node is inserted into the live element, one by one.
Mut_TextTag_insertRules_domOps_Unbatched(t, startRuleIndex, rules) ==
  [i \in 1..Len(rules) |-> DomOp("element", "insertBefore", <<rules[i]>>)]

\* The structural DOM operations of TextTag.insertRules, in order.
TextTag_insertRules_domOps(t, startRuleIndex, rules) ==
  LET fragmentNodes == TextTag_buildFragment(<<>>, rules, 1) IN
  Append(TextTag_buildFragment_domOps(<<>>, rules, 1),
         DomOp("element", "insertBefore", fragmentNodes))

\* The structural DOM operations of TextTag.deleteRule, in order.
TextTag_deleteRule_domOps(t, index) ==
  LET node == Item(t.store, index) IN
  IF node = NoNode THEN <<>>
  ELSE <<DomOp("element", "removeChild", <<t.store[node + 1]>>)>>

\* removeChild(undefined) raises TypeError before length is touched.
TextTag_deleteRule(t, index) ==
  LET node == Item(t.store, index) IN
  IF node = NoNode THEN Out(t, TRUE, FALSE)
  ELSE Out([store |-> RemoveAt(t.store, node), length |-> t.length - 1],
           FALSE, FALSE)

\* undefined.textContent raises TypeError.
TextTag_getRule(t, index) ==
  IF index < t.length
  THEN LET node == Item(t.store, index) IN
       IF node = NoNode THEN Out(t, TRUE, "")
       ELSE Out(t, FALSE, t.store[node + 1])
  ELSE Out(t, FALSE, "")

\* ------------------------------------------------------------- VirtualTag
VirtualTag_constructor ==
  [store |-> <<>>, length |-> 0, steps |-> <<>>]

\* Variant: the rule is spliced in without comparing index with length.
Mut_VirtualTag_insertRule_NoCheck(t, index, rule) ==
  Out([store |-> Array_spliceInsert(t.store, index, rule),
       length |-> t.length + 1], FALSE, TRUE)

VirtualTag_insertRule(t, index, rule) ==
  IF index <= t.length
  THEN Out([store |-> Array_spliceInsert(t.store, index, rule),
            length |-> t.length + 1], FALSE, TRUE)
  ELSE Out(t, FALSE, FALSE)

RECURSIVE VirtualTag_insertRulesLoop(_, _, _, _, _)
VirtualTag_insertRulesLoop(t, ruleIndex, rules, i, insertCount) ==
  IF i > Len(rules) THEN Out(t, FALSE, insertCount)
  ELSE LET r == VirtualTag_insertRule(t, ruleIndex, rules[i])
           t2 == [store |-> r.store, length |-> r.length] IN
       IF r.ret
       THEN VirtualTag_insertRulesLoop(t2, ruleIndex + 1, rules, i + 1, insertCount + 1)
       ELSE VirtualTag_insertRulesLoop(t2, ruleIndex, rules, i + 1, insertCount)

VirtualTag_insertRules(t, startRuleIndex, rules) ==
  VirtualTag_insertRulesLoop(t, startRuleIndex, rules, 1, 0)

\* Variant: the element after the requested one is removed.
Mut_VirtualTag_deleteRule_OffByOne(t, index) ==
  Out([store |-> Array_spliceDelete(t.store, index + 1), length |-> t.length - 1],
      FALSE, FALSE)

VirtualTag_deleteRule(t, index) ==
  Out([store |-> Array_spliceDelete(t.store, index), length |-> t.length - 1],
      FALSE, FALSE)

\* Variant: the element is read without comparing index with length.
Mut_VirtualTag_getRule_NoCheck(t, index) ==
  LET el == Item(t.store, index) IN
  Out(t, FALSE, IF el = NoNode THEN Undefined ELSE t.store[el + 1])

VirtualTag_getRule(t, index) ==
  IF index < t.length
  THEN LET el == Item(t.store, index) IN
       Out(t, FALSE, IF el = NoNode THEN Undefined ELSE t.store[el + 1])
  ELSE Out(t, FALSE, "")

\* ------------------------------------------------- the Tag interface calls
Tag_insertRule(b, t, index, rule) ==
  CASE b = "CSSOMTag" -> CSSOMTag_insertRule(t, index, rule)
    [] b = "TextTag" -> TextTag_insertRule(t, index, rule)
    [] OTHER -> VirtualTag_insertRule(t, index, rule)

Tag_insertRules(b, t, startRuleIndex, rules) ==
  CASE b = "CSSOMTag" -> CSSOMTag_insertRules(t, startRuleIndex, rules)
    [] b = "TextTag" -> TextTag_insertRules(t, startRuleIndex, rules)
    [] OTHER -> VirtualTag_insertRules(t, startRuleIndex, rules)

Tag_deleteRule(b, t, index) ==
  CASE b = "CSSOMTag" -> CSSOMTag_deleteRule(t, index)
    [] b = "TextTag" -> TextTag_deleteRule(t, index)
    [] OTHER -> VirtualTag_deleteRule(t, index)

Tag_getRule(b, t, index) ==
  CASE b = "CSSOMTag" -> CSSOMTag_getRule(t, index)
    [] b = "TextTag" -> TextTag_getRule(t, index)
    [] OTHER -> VirtualTag_getRule(t, index)

Tag_constructor(b) ==
  CASE b = "CSSOMTag" -> CSSOMTag_constructor
    [] b = "TextTag" -> TextTag_constructor
    [] OTHER -> VirtualTag_constructor

\* Only TextTag works on DOM nodes after construction: CSSOMTag goes through
\* the sheet and VirtualTag through an array.
Tag_insertRule_domOps(b, t, index, rule) ==
  IF b = "TextTag" THEN TextTag_insertRule_domOps(t, index, rule) ELSE <<>>

Tag_insertRules_domOps(b, t, startRuleIndex, rules) ==
  IF b = "TextTag" THEN TextTag_insertRules_domOps(t, startRuleIndex, rules) ELSE <<>>

Tag_deleteRule_domOps(b, t, index) ==
  IF b = "TextTag" THEN TextTag_deleteRule_domOps(t, index) ELSE <<>>

\* ------------------------------------------------------------------ state
VARIABLES
  options,  \* the SheetOptions makeTag was called with
  backend,  \* the class makeTag constructed
  store,    \* sheet.cssRules / element.childNodes texts / this.rules
  length,   \* this.length
  call,     \* the call that has just returned: method, arguments and outcome
            \* (op = "new" between calls, once the caller has taken the result)
  pre,      \* store and length when that call began
  net,      \* history: inserts reported by return values minus deletes performed
  misuse,   \* history: some deleteRule was called outside 0 <= index < length
  ctor,     \* history: the steps the constructor took, in order
  domOps,   \* the structural DOM operations the last call performed, in order
  trio,     \* one Tag of each class, given the same calls side by side
  trioRet,  \* what the last of those calls yielded on each of the three
  trioCall  \* that call: method and index

tagVars == <<options, backend, store, length, call, pre, net, misuse, ctor, domOps>>
trioVars == <<trio, trioRet, trioCall>>
vars == <<options, backend, store, length, call, pre, net, misuse, ctor, domOps,
          trio, trioRet, trioCall>>

Indices == (0 - MaxNeg)..(MaxLen + 1)

\* The rules offered in batches: one the engine accepts and one it rejects
\* (TextTag and VirtualTag take both as opaque text).
BatchRules == {PlainRule, BadRule}

RECURSIVE SeqsUpTo(_)
SeqsUpTo(n) ==
  IF n = 0 THEN {<<>>}
  ELSE LET shorter == SeqsUpTo(n - 1) IN
       shorter \cup {Append(s, r) : s \in {q \in shorter : Len(q) = n - 1}, r \in BatchRules}

Batches == SeqsUpTo(MaxBatch)

Tag == [store |-> store, length |-> length]

NoCall ==
  [op |-> "new", index |-> 0, rule |-> "", rules |-> <<>>,
   threw |-> FALSE, retBool |-> FALSE, retNum |-> 0, retStr |-> ""]

Init ==
  /\ options \in [isServer : BOOLEAN, useCSSOMInjection : BOOLEAN]
  /\ backend = makeTag(options.isServer, options.useCSSOMInjection)
  /\ store = Tag_constructor(backend).store
  /\ length = Tag_constructor(backend).length
  /\ ctor = Tag_constructor(backend).steps
  /\ call = NoCall
  /\ pre = NewTag
  /\ net = 0
  /\ misuse = FALSE
  /\ domOps = <<>>
  /\ trio = [b \in Backends |->
               [store |-> Tag_constructor(b).store, length |-> Tag_constructor(b).length]]
  /\ trioRet = [b \in Backends |-> <<FALSE, FALSE>>]
  /\ trioCall = [op |-> "new", index |-> 0]

InsertRule(index, rule) ==
  LET r == Tag_insertRule(backend, Tag, index, rule) IN
  /\ call.op = "new"
  /\ Len(r.store) <= MaxLen
  /\ store' = r.store
  /\ length' = r.length
  /\ call' = [NoCall EXCEPT !.op = "insertRule", !.index = index, !.rule = rule,
                            !.threw = r.threw, !.retBool = r.ret]
  /\ pre' = Tag
  /\ net' = IF ~r.threw /\ r.ret THEN net + 1 ELSE net
  /\ domOps' = Tag_insertRule_domOps(backend, Tag, index, rule)
  /\ UNCHANGED <<options, backend, misuse, ctor>>
  /\ UNCHANGED trioVars

InsertRules(startRuleIndex, rules) ==
  LET r == Tag_insertRules(backend, Tag, startRuleIndex, rules) IN
  /\ call.op = "new"
  /\ Len(r.store) <= MaxLen
  /\ store' = r.store
  /\ length' = r.length
  /\ call' = [NoCall EXCEPT !.op = "insertRules", !.index = startRuleIndex,
                            !.rules = rules, !.threw = r.threw, !.retNum = r.ret]
  /\ pre' = Tag
  /\ net' = IF ~r.threw THEN net + r.ret ELSE net
  /\ domOps' = Tag_insertRules_domOps(backend, Tag, startRuleIndex, rules)
  /\ UNCHANGED <<options, backend, misuse, ctor>>
  /\ UNCHANGED trioVars

DeleteRule(index) ==
  LET r == Tag_deleteRule(backend, Tag, index) IN
  /\ call.op = "new"
  /\ Len(r.store) - r.length <= MaxDrift
  /\ store' = r.store
  /\ length' = r.length
  /\ call' = [NoCall EXCEPT !.op = "deleteRule", !.index = index, !.threw = r.threw]
  /\ pre' = Tag
  /\ net' = IF ~r.threw THEN net - 1 ELSE net
  /\ misuse' = (misuse \/ ~(0 <= index /\ index < length))
  /\ domOps' = Tag_deleteRule_domOps(backend, Tag, index)
  /\ UNCHANGED <<options, backend, ctor>>
  /\ UNCHANGED trioVars

GetRule(index) ==
  LET r == Tag_getRule(backend, Tag, index) IN
  /\ call.op = "new"
  /\ store' = r.store
  /\ length' = r.length
  /\ call' = [NoCall EXCEPT !.op = "getRule", !.index = index,
                            !.threw = r.threw, !.retStr = r.ret]
  /\ pre' = Tag
  /\ domOps' = <<>>
  /\ UNCHANGED <<options, backend, net, misuse, ctor>>
  /\ UNCHANGED trioVars

\* The caller has consumed the outcome; calls are issued serially, one after
\* the other has returned.
Return ==
  /\ call.op # "new"
  /\ call' = NoCall
  /\ pre' = Tag
  /\ domOps' = <<>>
  /\ UNCHANGED <<options, backend, store, length, net, misuse, ctor>>
  /\ UNCHANGED trioVars

Next ==
  \/ \E index \in Indices, rule \in Rules : InsertRule(index, rule)
  \/ \E index \in Indices, rules \in Batches : InsertRules(index, rules)
  \/ \E index \in Indices : DeleteRule(index)
  \/ \E index \in Indices : GetRule(index)
  \/ Return

Spec == Init /\ [][Next]_vars

\* ------------------------------------------------- three Tags side by side
\* Rule arrays of rules the engine takes and serialises unchanged.
CanonBatches == UNION {[1..n -> CanonRules] : n \in 0..MaxBatch}

\* The three Tags after the same call, and what it yielded on each.
TrioStep(op, index, outs) ==
  /\ \A b \in Backends : Len(outs[b].store) <= MaxLen
  /\ trio' = [b \in Backends |-> [store |-> outs[b].store, length |-> outs[b].length]]
  /\ trioRet' = [b \in Backends |-> <<outs[b].threw, outs[b].ret>>]
  /\ trioCall' = [op |-> op, index |-> index]
  /\ UNCHANGED tagVars

\* insertRule(index, rule) with 0 <= index <= length on each of the three.
TrioInsertRule(index, rule) ==
  /\ \A b \in Backends : 0 <= index /\ index <= trio[b].length
  /\ TrioStep("insertRule", index,
              [b \in Backends |-> Tag_insertRule(b, trio[b], index, rule)])

\* insertRules(index, rules) with 0 <= index <= length on each of the three.
TrioInsertRules(index, rules) ==
  /\ \A b \in Backends : 0 <= index /\ index <= trio[b].length
  /\ TrioStep("insertRules", index,
              [b \in Backends |-> Tag_insertRules(b, trio[b], index, rules)])

\* deleteRule(index) with 0 <= index < length on each of the three.
TrioDeleteRule(index) ==
  /\ \A b \in Backends : 0 <= index /\ index < trio[b].length
  /\ TrioStep("deleteRule", index,
              [b \in Backends |-> Tag_deleteRule(b, trio[b], index)])

\* getRule(index) with index >= 0 on each of the three.
TrioGetRule(index) ==
  /\ 0 <= index
  /\ TrioStep("getRule", index,
              [b \in Backends |-> Tag_getRule(b, trio[b], index)])

NextTrio ==
  \/ \E index \in Indices, rule \in CanonRules : TrioInsertRule(index, rule)
  \/ \E index \in Indices, rules \in CanonBatches : TrioInsertRules(index, rules)
  \/ \E index \in Indices : TrioDeleteRule(index)
  \/ \E index \in Indices : TrioGetRule(index)

SpecTrio == Init /\ [][NextTrio]_vars

TypeOK ==
  /\ backend \in Backends
  /\ backend = makeTag(options.isServer, options.useCSSOMInjection)
  /\ store \in Seq(Rules)
  /\ Len(store) <= MaxLen
  /\ length \in Int
  /\ net \in Int
  /\ misuse \in BOOLEAN

\* ----------------------------------------------------------- observations
\* What getRule(k) yields on Tag t of the current backend: <<raised, text>>.
Reading(t, k) ==
  LET g == Tag_getRule(backend, t, k) IN <<g.threw, g.ret>>

\* The text of entry k of the physical store: the node's or array element's
\* string, or the engine's serialisation of the rule object.
StoredText(t, k) ==
  IF backend = "CSSOMTag" THEN CssText(t.store[k + 1]) ELSE t.store[k + 1]

StoredTexts(t) == {StoredText(t, k) : k \in 0..(Len(t.store) - 1)}

InRange(k, n) == 0 <= k /\ k < n

\* ------------------------------------------------------------------- C1
\* C1 as stated: as long as every deleteRule had 0 <= index < length, length
\* is the size of the physical store and getRule(k) returns the stored rule
\* at k for exactly the indices 0 <= k < length.
C1_LengthIsStoreAndGetRuleReadsIt ==
  ~misuse =>
    /\ length = Len(store)
    /\ \A k \in Indices :
         IF InRange(k, length)
         THEN Reading(Tag, k) = <<FALSE, StoredText(Tag, k)>>
         ELSE Reading(Tag, k)[1] \/ Reading(Tag, k)[2] \notin StoredTexts(Tag)

\* C1 amended: the same, except that on CSSOMTag an entry whose rule object
\* has no string cssText reads as "" although its index is below length.
C1_LengthIsStoreAndGetRuleReadsReadable ==
  ~misuse =>
    /\ length = Len(store)
    /\ \A k \in Indices :
         IF InRange(k, length)
         THEN IF backend = "CSSOMTag" /\ ~CssTextIsString(store[k + 1])
              THEN Reading(Tag, k) = <<FALSE, "">>
              ELSE Reading(Tag, k) = <<FALSE, StoredText(Tag, k)>>
         ELSE Reading(Tag, k)[1] \/ Reading(Tag, k)[2] \notin StoredTexts(Tag)

\* A CSSOMTag that holds an unreadable rule next to a readable one, after
\* inserts and an in-range delete.
C1_Witness ==
  /\ ~misuse
  /\ backend = "CSSOMTag"
  /\ call.op = "deleteRule" /\ ~call.threw
  /\ length = 2
  /\ \E k \in 1..Len(store) : store[k] = QuirkRule
  /\ \E k \in 1..Len(store) : store[k] = PlainRule

\* ------------------------------------------------------------------- C2
\* The text under which rule r is read back once it is stored: r itself, or
\* on CSSOMTag what the engine exposes for it.
ReadBackOf(r) ==
  IF backend = "CSSOMTag"
  THEN IF CssTextIsString(r) THEN CssText(r) ELSE ""
  ELSE r

\* C2: if insertRule(i, r) returned true then getRule(i) reads r back, length
\* grew by one, and every rule that was at j with i <= j < old length reads
\* at j+1.
C2_InsertReadableAndShifts ==
  (call.op = "insertRule" /\ ~call.threw /\ call.retBool) =>
    /\ Reading(Tag, call.index) = <<FALSE, ReadBackOf(call.rule)>>
    /\ length = pre.length + 1
    /\ \A j \in 0..(pre.length - 1) :
         j >= call.index => Reading(Tag, j + 1) = Reading(pre, j)

\* ------------------------------------------------------------------- C3
\* C3: insertRule with index < 0 returns false and changes neither length
\* nor the physical store.
C3_NegativeIndexRejected ==
  (call.op = "insertRule" /\ call.index < 0) =>
    /\ ~call.threw /\ ~call.retBool
    /\ store = pre.store /\ length = pre.length

\* ------------------------------------------------------------------- C4
\* C4: insertRule with index > length returns false, raises nothing and
\* changes neither length nor the physical store.
C4_IndexAboveLengthRejected ==
  (call.op = "insertRule" /\ call.index > pre.length) =>
    /\ ~call.threw /\ ~call.retBool
    /\ store = pre.store /\ length = pre.length

\* An acceptable rule offered above the end of a non-empty Tag.
C4_Witness ==
  /\ call.op = "insertRule" /\ call.index > pre.length
  /\ pre.length >= 1
  /\ call.rule = CanonRule
  /\ ~call.retBool

\* ------------------------------------------------------------------- C5
\* C5 as stated: on TextTag and VirtualTag insertRules(s, rs) returns
\* rs.length for every start index s and every rs.
C5_BatchReturnsLengthAnyStart ==
  (call.op = "insertRules" /\ backend \in {"TextTag", "VirtualTag"}) =>
    ~call.threw /\ call.retNum = Len(call.rules)

\* C5 amended: insertRules(s, rs) returns rs.length for every rs, on TextTag
\* for every start index s and on VirtualTag for every s <= length.
C5_BatchReturnsLengthUnlessAboveLength ==
  (/\ call.op = "insertRules" /\ backend \in {"TextTag", "VirtualTag"}
   /\ (backend = "VirtualTag" => call.index <= pre.length)) =>
    ~call.threw /\ call.retNum = Len(call.rules)

\* A two-rule batch placed inside a non-empty TextTag.
C5_Witness ==
  /\ call.op = "insertRules" /\ backend = "TextTag"
  /\ 0 <= call.index /\ call.index < pre.length
  /\ Len(call.rules) = 2
  /\ call.retNum = 2

\* ------------------------------------------------------------------- C6
\* The Tag after insertRule(s, rs[1]), insertRule(s+1, rs[2]), ... in turn.
RECURSIVE SequentialInserts(_, _, _, _)
SequentialInserts(t, s, rs, i) ==
  IF i > Len(rs) THEN t
  ELSE LET r == Tag_insertRule(backend, t, s + i - 1, rs[i]) IN
       SequentialInserts([store |-> r.store, length |-> r.length], s, rs, i + 1)

\* C6: on TextTag and VirtualTag, insertRules(s, rs) leaves the Tag as the
\* calls insertRule(s, rs[0]), ..., insertRule(s+n-1, rs[n-1]) would, for
\* every start index s.
C6_BatchEqualsSequentialInserts ==
  (call.op = "insertRules" /\ backend \in {"TextTag", "VirtualTag"}) =>
    Tag = SequentialInserts(pre, call.index, call.rules, 1)

\* ------------------------------------------------------------------- C7
\* C7: length is the number of insertRule calls that returned true plus the
\* counts returned by insertRules minus the deleteRule calls performed
\* (net), and an insertRules call grows length by exactly what it returns.
C7_LengthIsNetOfReturns ==
  /\ length = net
  /\ (call.op = "insertRules" /\ ~call.threw) => length = pre.length + call.retNum

\* A CSSOMTag batch of which the engine took one rule and refused the other.
C7_Witness ==
  /\ call.op = "insertRules" /\ backend = "CSSOMTag"
  /\ Len(call.rules) = 2 /\ call.retNum = 1
  /\ pre.length >= 1
  /\ length = pre.length + 1

\* ------------------------------------------------------------------- C8
\* C8: deleteRule(i) with 0 <= i < length lowers length by one, makes every
\* rule that was at j > i readable at j-1 and leaves the rules below i alone.
C8_DeleteShiftsDown ==
  (call.op = "deleteRule" /\ InRange(call.index, pre.length)) =>
    /\ ~call.threw
    /\ length = pre.length - 1
    /\ \A j \in 0..(pre.length - 1) :
         /\ j > call.index => Reading(Tag, j - 1) = Reading(pre, j)
         /\ j < call.index => Reading(Tag, j) = Reading(pre, j)

\* A delete with rules on both sides of the deleted index.
C8_Witness ==
  /\ call.op = "deleteRule" /\ ~call.threw
  /\ call.index = 1 /\ pre.length = 3
  /\ pre.store[1] # pre.store[3]
  /\ length = 2

\* ------------------------------------------------------------------- C9
\* C9: in every reachable state getRule(index) with index >= length yields
\* "", raises nothing and changes nothing.
C9_ReadAtOrAboveLengthIsEmpty ==
  /\ \A k \in Indices :
       k >= length =>
         LET g == Tag_getRule(backend, Tag, k) IN
         ~g.threw /\ g.ret = "" /\ g.store = store /\ g.length = length
  /\ (call.op = "getRule" /\ call.index >= pre.length) =>
       ~call.threw /\ call.retStr = "" /\ store = pre.store /\ length = pre.length

\* A read just past the last rule of a non-empty Tag.
C9_Witness ==
  /\ call.op = "getRule" /\ call.index = pre.length
  /\ pre.length >= 1
  /\ call.retStr = ""

\* ------------------------------------------------------------------ C10
\* C10: on CSSOMTag, when the engine raises on the insertion, insertRule
\* returns false, raises nothing, and length and cssRules stay as they were.
C10_EngineRejectionReturnsFalse ==
  (/\ backend = "CSSOMTag" /\ call.op = "insertRule"
   /\ Sheet_insertRule(pre.store, call.rule, call.index).threw) =>
    /\ ~call.threw /\ ~call.retBool
    /\ store = pre.store /\ length = pre.length

\* insertRule(0, "not valid css") on an empty CSSOMTag.
C10_Witness ==
  /\ backend = "CSSOMTag" /\ call.op = "insertRule"
  /\ call.index = 0 /\ call.rule = BadRule
  /\ pre.length = 0
  /\ ~call.retBool /\ length = 0

\* ------------------------------------------------------------------ C11
\* The rules of a batch the engine accepts, in their order.
AcceptedOf(rules) == SelectSeq(rules, EngineAccepts)

C12_MakeTagPriorityAndFixed ==
  /\ [](backend = IF options.isServer THEN "VirtualTag"
                  ELSE IF options.useCSSOMInjection THEN "CSSOMTag"
                  ELSE "TextTag")
  /\ [][backend' = backend /\ options' = options]_vars

\* A Tag made with both options set, still a VirtualTag after it was used.
C12_Witness ==
  /\ options.isServer /\ options.useCSSOMInjection
  /\ backend = "VirtualTag"
  /\ call.op = "deleteRule"
  /\ length >= 1

\* ------------------------------------------------------------------ C13
\* The operations of a call that touched the live element.
LiveOps == SelectSeq(domOps, LAMBDA o : o.on = "element")

\* C13: one TextTag.insertRules call mutates the live element exactly once,
\* whatever the batch size: the nodes are first put, in order, into the
\* detached fragment, and the fragment is then attached by one insertBefore
\* on the element.
C13_BatchIsOneLiveMutation ==
  (backend = "TextTag" /\ call.op = "insertRules") =>
    /\ Len(LiveOps) = 1
    /\ Len(domOps) = Len(call.rules) + 1
    /\ \A i \in 1..Len(call.rules) :
         domOps[i] = DomOp("fragment", "insertBefore", <<call.rules[i]>>)
    /\ domOps[Len(domOps)] = DomOp("element", "insertBefore", call.rules)

\* A batch of two rules attached inside a non-empty TextTag.
C13_Witness ==
  /\ backend = "TextTag" /\ call.op = "insertRules"
  /\ Len(call.rules) = 2 /\ call.rules[1] # call.rules[2]
  /\ pre.length >= 1 /\ call.index = 0
  /\ Len(domOps) = 3

\* ------------------------------------------------------------------ C14
\* C14: the CSSOMTag constructor appends the placeholder text node before
\* it calls getSheet, so getSheet never sees an element without a child
\* node, and the new Tag starts with length 0.
C14_PlaceholderBeforeSheet ==
  /\ (backend = "CSSOMTag" => length = 0)
  /\ [](backend = "CSSOMTag" =>
          /\ \E i \in 1..Len(ctor) : ctor[i].step = "getSheet"
          /\ \A i \in 1..Len(ctor) :
               ctor[i].step = "getSheet" =>
                 /\ ctor[i].children >= 1
                 /\ \E j \in 1..(i - 1) : ctor[j].step = "appendChild")

\* A CSSOMTag in use whose constructor took its three steps.
C14_Witness ==
  /\ backend = "CSSOMTag"
  /\ Len(ctor) = 3 /\ ctor[3].step = "getSheet" /\ ctor[3].children = 1
  /\ call.op = "insertRule" /\ call.retBool

\* ------------------------------------------------------------------ C15
\* C15: getRule with a negative index returns "" and raises nothing, on
\* every backend.
C15_NegativeReadIsEmpty ==
  (call.op = "getRule" /\ call.index < 0) =>
    ~call.threw /\ call.retStr = ""

\* ------------------------------------------------------------------ C16
\* The call left length and the physical store as they were.
NothingApplied == store = pre.store /\ length = pre.length

\* The stores that result from placing rules[i], rules[i+1], ... one after
\* the other, each at some position, into a store of the set `stores`.
RECURSIVE WithAllPlaced(_, _, _)
WithAllPlaced(stores, rules, i) ==
  IF i > Len(rules) THEN stores
  ELSE WithAllPlaced(
         {InsertAt(st, p, <<rules[i]>>) : st \in stores, p \in 0..(Len(pre.store) + i - 1)},
         rules, i + 1)

\* The call placed every rule of `rules` in the store and counted them all.
InsertedAll(rules) ==
  /\ length = pre.length + Len(rules)
  /\ store \in WithAllPlaced({pre.store}, rules, 1)

\* The call removed one stored rule and counted it.
RemovedOne ==
  /\ length = pre.length - 1
  /\ \E p \in 0..(Len(pre.store) - 1) : store = RemoveAt(pre.store, p)

\* C16 as stated: every insertRule, insertRules and deleteRule call either
\* applies its whole effect or leaves length and the store unchanged.
C16_EveryCallAllOrNothing ==
  /\ call.op = "insertRule" => (NothingApplied \/ InsertedAll(<<call.rule>>))
  /\ call.op = "insertRules" => (NothingApplied \/ InsertedAll(call.rules))
  /\ call.op = "deleteRule" => (NothingApplied \/ RemovedOne)

\* C16 amended: insertRule on every backend and insertRules on TextTag and
\* VirtualTag are all or nothing; CSSOMTag.insertRules applies exactly the
\* rules of the batch the engine accepts; deleteRule removes one rule and
\* lowers length, or raises and changes nothing, except that VirtualTag's
\* deleteRule with an index that addresses no stored rule lowers length
\* and removes nothing.
C16_AllOrNothingButEngineBatch ==
  /\ call.op = "insertRule" => (NothingApplied \/ InsertedAll(<<call.rule>>))
  /\ call.op = "insertRules" =>
       IF backend = "CSSOMTag"
       THEN NothingApplied \/ InsertedAll(AcceptedOf(call.rules))
       ELSE NothingApplied \/ InsertedAll(call.rules)
  /\ call.op = "deleteRule" =>
       IF backend = "VirtualTag"
            /\ SpliceStart(Len(pre.store), call.index) >= Len(pre.store)
       THEN store = pre.store /\ length = pre.length - 1
       ELSE (call.threw /\ NothingApplied) \/ (~call.threw /\ RemovedOne)

\* A CSSOMTag batch of two of which only the first was applied.
C16_Witness ==
  /\ backend = "CSSOMTag" /\ call.op = "insertRules"
  /\ call.rules = <<PlainRule, BadRule>>
  /\ call.index = 0
  /\ pre.length >= 1
  /\ store = <<PlainRule>> \o pre.store

\* ------------------------------------------------------------------ C17
\* C17: a deleteRule(index) with index >= length on a Tag whose length was
\* the number of stored rules leaves length equal to the number of stored
\* rules and not negative.
C17_DeleteAboveLengthKeepsCounter ==
  (/\ call.op = "deleteRule" /\ call.index >= pre.length
   /\ pre.length = Len(pre.store)) =>
    length = Len(store) /\ length >= 0

\* ------------------------------------------------------------------ C18
\* C18: once insertRule(i, r) has returned true, deleteRule(i) brings back
\* the length and the rule read at every index that held before the insert.
C18_InsertThenDeleteRestores ==
  (call.op = "insertRule" /\ ~call.threw /\ call.retBool) =>
    LET d == Tag_deleteRule(backend, Tag, call.index)
        after == [store |-> d.store, length |-> d.length] IN
    /\ ~d.threw
    /\ d.length = pre.length
    /\ \A k \in Indices : Reading(after, k) = Reading(pre, k)

\* ------------------------------------------------------------------ C19
\* C19: with rules the engine accepts and serialises unchanged and with
\* in-range arguments, the same calls on a CSSOMTag, a TextTag and a
\* VirtualTag yield the same return value at every call and leave the same
\* length and the same rules in the same order.
C19_BackendsAgree ==
  \A b1, b2 \in Backends :
    /\ trioRet[b1] = trioRet[b2]
    /\ trio[b1].length = trio[b2].length
    /\ \A k \in 0..MaxLen :
         Tag_getRule(b1, trio[b1], k).ret = Tag_getRule(b2, trio[b2], k).ret
    /\ Len(trio[b1].store) = Len(trio[b2].store)

\* The three Tags after a delete that left two different rules behind.
C19_Witness ==
  /\ trioCall.op = "deleteRule" /\ trioCall.index = 1
  /\ \A b \in Backends :
       /\ trio[b].length = 2
       /\ Tag_getRule(b, trio[b], 0).ret = CanonRule2
       /\ Tag_getRule(b, trio[b], 1).ret = CanonRule
====
